---- MODULE Spec2Model ----
(***************************************************************************)
(* State-machine model of rust-compute-demo (src/src/main.rs): the startup *)
(* of `main`, the router, and the `/compute` handler with its parallel     *)
(* filter-square-sum reduction.                                            *)
(*                                                                         *)
(* TLC's integers are 32 bits wide, while `usize` and `u64` on the target  *)
(* are 64 bits wide.  Values of those types are therefore kept as natural  *)
(* numbers in base 10^4, least significant limb first, without leading     *)
(* zero limbs (zero is the empty sequence).  Strings that the program      *)
(* inspects character by character are sequences of one-character strings. *)
(***************************************************************************)
EXTENDS Integers, Sequences, FiniteSets, TLC

\* ------------------------------------------------------------------------
\* Natural numbers of arbitrary size
\* ------------------------------------------------------------------------

Base == 10 ^ 4

\* The one element of a singleton set.  Operators below take the value of
\* an argument by ranging a bound variable over the singleton of it, which
\* evaluates the argument once however often the value is used.
The(S) == CHOOSE v \in S : TRUE

Limb(a, i) == IF i <= Len(a) THEN a[i] ELSE 0

RECURSIVE NormTo(_, _)
NormTo(a, n) ==
  IF n = 0 THEN <<>>
  ELSE IF a[n] = 0 THEN NormTo(a, n - 1)
  ELSE SubSeq(a, 1, n)

Norm(a) == The({NormTo(x, Len(x)) : x \in {a}})

RECURSIVE FromInt(_)
FromInt(n) ==
  The({IF m = 0 THEN <<>> ELSE <<m % Base>> \o FromInt(m \div Base) : m \in {n}})

RECURSIVE ToIntFrom(_, _)
ToIntFrom(a, i) ==
  IF i > Len(a) THEN 0 ELSE a[i] + Base * ToIntFrom(a, i + 1)

ToInt(a) == The({ToIntFrom(x, 1) : x \in {a}})

RECURSIVE AddCarry(_, _, _, _)
AddCarry(a, b, i, c) ==
  IF i > Len(a) /\ i > Len(b) THEN (IF c = 0 THEN <<>> ELSE <<c>>)
  ELSE The({<<x % Base>> \o AddCarry(a, b, j, x \div Base) :
              x \in {Limb(a, i) + Limb(b, i) + c}, j \in {i + 1}})

BigAdd(a, b) == The({AddCarry(x, y, 1, 0) : x \in {a}, y \in {b}})

RECURSIVE MulLimb(_, _, _, _)
MulLimb(a, d, i, c) ==
  IF i > Len(a) THEN (IF c = 0 THEN <<>> ELSE <<c>>)
  ELSE The({<<x % Base>> \o MulLimb(a, d, j, x \div Base) :
              x \in {a[i] * d + c}, j \in {i + 1}})

\* a * b, one limb of b at a time from the most significant one
RECURSIVE MulFrom(_, _, _, _)
MulFrom(a, b, i, acc) ==
  IF i = 0 THEN acc
  ELSE The({MulFrom(a, b, j, r) :
              r \in {BigAdd(Norm(MulLimb(a, b[i], 1, 0)),
                            IF acc = <<>> THEN <<>> ELSE <<0>> \o acc)},
              j \in {i - 1}})

BigMul(a, b) ==
  The({IF x = <<>> \/ y = <<>> THEN <<>> ELSE MulFrom(x, y, Len(y), <<>>) :
         x \in {a}, y \in {b}})

RECURSIVE LessFrom(_, _, _)
LessFrom(a, b, i) ==
  IF i = 0 THEN FALSE
  ELSE IF a[i] # b[i] THEN a[i] < b[i]
  ELSE The({LessFrom(a, b, j) : j \in {i - 1}})

BigLess(a, b) ==
  The({IF Len(x) # Len(y) THEN Len(x) < Len(y) ELSE LessFrom(x, y, Len(x)) :
         x \in {a}, y \in {b}})

BigLeq(a, b) == ~BigLess(b, a)

RECURSIVE SubBorrow(_, _, _, _)
SubBorrow(a, b, i, w) ==
  IF i > Len(a) THEN <<>>
  ELSE The({<<IF x < 0 THEN x + Base ELSE x>>
              \o SubBorrow(a, b, j, IF x < 0 THEN 1 ELSE 0) :
              x \in {a[i] - Limb(b, i) - w}, j \in {i + 1}})

\* a - b for b <= a
BigSub(a, b) == The({Norm(SubBorrow(x, y, 1, 0)) : x \in {a}, y \in {b}})

\* a mod m, by reducing modulo 2m first
RECURSIVE BigMod(_, _)
BigMod(a, m) ==
  The({IF BigLess(x, n) THEN x
       ELSE The({IF BigLess(r, n) THEN r ELSE BigSub(r, n) :
                   r \in {BigMod(x, BigAdd(n, n))}}) :
         x \in {a}, n \in {m}})

\* ------------------------------------------------------------------------
\* Decimal text
\* ------------------------------------------------------------------------

DigitChars == <<"0", "1", "2", "3", "4", "5", "6", "7", "8", "9">>

Digits == {DigitChars[i] : i \in 1..10}

DigitVal(c) == (CHOOSE i \in 1..10 : DigitChars[i] = c) - 1

RECURSIVE IntDigits(_)
IntDigits(n) ==
  IF n < 10 THEN <<DigitChars[n + 1]>>
  ELSE IntDigits(n \div 10) \o <<DigitChars[(n % 10) + 1]>>

LimbDigits(n) ==
  <<DigitChars[(n \div 1000) + 1], DigitChars[((n \div 100) % 10) + 1],
    DigitChars[((n \div 10) % 10) + 1], DigitChars[(n % 10) + 1]>>

RECURSIVE LowLimbs(_, _)
LowLimbs(a, i) ==
  IF i = 0 THEN <<>> ELSE LimbDigits(a[i]) \o LowLimbs(a, i - 1)

\* `{size}` and `{sum}` of format!: the Display of an unsigned integer.
Display(a) ==
  IF a = <<>> THEN <<"0">>
  ELSE IntDigits(a[Len(a)]) \o LowLimbs(a, Len(a) - 1)

\* ------------------------------------------------------------------------
\* Unsigned machine integers
\* ------------------------------------------------------------------------

\* 2^32, the modulus of a 32-bit accumulator
U32Modulus == <<7296, 9496, 42>>

\* 2^64, the modulus of u64 (and of usize on a 64-bit target)
U64Modulus == <<1616, 955, 737, 6744, 1844>>

\* usize::MAX (64-bit target) and u16::MAX
UsizeMax == <<1615, 955, 737, 6744, 1844>>

U16Max == FromInt(65535)

\* The longest Vec<u32> that can be requested: isize::MAX bytes, 4 per
\* element; Vec::with_capacity panics ("capacity overflow") above it.
MaxVecLen == <<3951, 1369, 92, 5843, 230>>

\* A u64 value together with whether computing it wrapped modulo 2^64.
U64(a) == [val |-> a, wrapped |-> FALSE]

\* The exact result s of an operation, as a 32-bit accumulator would hold it
WrapU32(s) ==
  The({[val |-> BigMod(x, U32Modulus), wrapped |-> ~BigLess(x, U32Modulus)] : x \in {s}})

\* The exact result s of an operation, as the u64 holds it
WrapU64(s) ==
  The({[val |-> BigMod(x, U64Modulus), wrapped |-> ~BigLess(x, U64Modulus)] : x \in {s}})

\* The right operand alone
KeepRight(a, b) == b

\* `a + b` on u64 (Sum for u64 and the reduction of two partial sums)
AddU64(a, b) ==
  LET w == WrapU64(BigAdd(a.val, b.val))
  IN  [w EXCEPT !.wrapped = @ \/ a.wrapped \/ b.wrapped]

\* `x as u64 * x as u64` for a u32 x
SquareU64(x) == WrapU64(BigMul(FromInt(x), FromInt(x)))

\* cnt successive additions of the same term t to the accumulator acc
AddRepeated(acc, t, cnt) ==
  LET w == WrapU64(BigAdd(acc.val, BigMul(FromInt(cnt), t.val)))
  IN  [w EXCEPT !.wrapped = @ \/ acc.wrapped \/ t.wrapped]

\* ------------------------------------------------------------------------
\* str::parse for unsigned integer types (usize at line 107, u16 at 146)
\* ------------------------------------------------------------------------

ParseErr == [ok |-> FALSE, val |-> <<>>]

\* One digit d after the value acc: checked_mul(10), then checked_add(d)
PushDigit(acc, d, max) ==
  The({IF BigLess(max, m) THEN ParseErr
       ELSE The({IF BigLess(max, r) THEN ParseErr ELSE [ok |-> TRUE, val |-> r] :
                   r \in {BigAdd(m, FromInt(d))}}) :
         m \in {BigMul(acc, <<10>>)}})

RECURSIVE ParseDigits(_, _, _)
ParseDigits(ds, acc, max) ==
  IF ds = <<>> THEN [ok |-> TRUE, val |-> acc]
  ELSE IF Head(ds) \notin Digits THEN ParseErr
  ELSE The({IF so.ok THEN ParseDigits(rest, so.val, max) ELSE ParseErr :
              so \in {PushDigit(acc, DigitVal(Head(ds)), max)}, rest \in {Tail(ds)}})

ParseUnsigned(s, max) ==
  The({IF t = <<>> THEN ParseErr
       ELSE IF t = <<"+">> \/ t = <<"-">> THEN ParseErr
       ELSE ParseDigits(IF Head(t) = "+" THEN Tail(t) ELSE t, <<>>, m) :
         t \in {s}, m \in {max}})

\* ------------------------------------------------------------------------
\* Bounds of the model
\* ------------------------------------------------------------------------

\* Runs of equal values written out in a generated array (see GenArrays)
MaxRuns == 2

\* Splits the parallel reduction of one array may perform
MaxSplits == 2

\* Largest number of threads of the shared rayon pool
MaxWorkers == 2

\* Request slots of the concurrent specifications
MaxReqs == 2

\* ------------------------------------------------------------------------
\* Program constants
\* ------------------------------------------------------------------------

\* unwrap_or(10_000_000)
DEFAULT_SIZE == 10000000

\* gen_range(0..10_000): exclusive upper end of the range
RANGE_END == 10000

\* "8080".to_string()
DEFAULT_PORT == <<"8", "0", "8", "0">>

\* SocketAddr::from(([0, 0, 0, 0], port))
ALL_INTERFACES == <<0, 0, 0, 0>>

\* The document returned by `index`, as the lines the buttons are on.
INDEX_HTML == <<<<"Compute 10M">>, <<"Compute 50M">>, <<"Compute 100M">>>>

\* ------------------------------------------------------------------------
\* State
\* ------------------------------------------------------------------------

VARIABLES
  mainPc,    \* position of `main`: start, env_read, port_parsed, serving, terminated
  portEnv,   \* the PORT environment variable: [kind, val]
  portStr,   \* the string handed to parse::<u16>()
  addr,      \* the socket address the listener is bound to
  binds,     \* number of calls of TcpListener::bind
  poolSize,  \* threads of the global rayon pool
  reqs       \* the requests, by slot

vars == <<mainPc, portEnv, portStr, addr, binds, poolSize, reqs>>

mainVars == <<mainPc, portEnv, portStr, addr, binds>>

NoAddr == [ip |-> <<>>, port |-> 0]

NoResp == [status |-> 0, body |-> <<>>]

Zero64 == U64(<<>>)

IdleReq ==
  [pc |-> "idle", method |-> "", path |-> "", params |-> <<>>,
   size |-> <<>>, data |-> <<>>, nodes |-> {}, splits |-> 0, sum |-> Zero64,
   log |-> <<>>, elapsed |-> <<>>, resp |-> NoResp]

\* ------------------------------------------------------------------------
\* The value array (lines 111-113)
\* ------------------------------------------------------------------------

\* The values gen_range(lo..hi) is sampled at: the least value of the
\* half-open range, its greatest even value and its greatest value.
GenRange(lo, hi) == {lo, hi - 2, hi - 1}

\* An array is kept as its runs: <<[v |-> value, k |-> repetitions], ...>>.
RECURSIVE Length(_)
Length(d) == IF d = <<>> THEN 0 ELSE Head(d).k + Length(Tail(d))

\* The arrays of n elements that are generated: every array of up to
\* MaxRuns elements; of the longer ones, those whose elements from the
\* MaxRuns-th on are equal.
GenArrays(n) ==
  LET r == IF n < MaxRuns THEN n ELSE MaxRuns
  IN  {[i \in 1..r |-> [v |-> f[i], k |-> IF i < r THEN 1 ELSE n - (r - 1)]] :
         f \in [1..r -> GenRange(0, RANGE_END)]}

\* ------------------------------------------------------------------------
\* The reduction (lines 122-126)
\* ------------------------------------------------------------------------

\* A filter that keeps the odd values instead
KeepOdd(x) == x % 2 = 1

\* .filter(|&&x| x % 2 == 0)
Keep(x) == x % 2 = 0

\* One worker's sequential filter-map-sum over the elements lo..hi-1; `off`
\* is the index of the first element of the runs still to visit.
RECURSIVE FoldRuns(_, _, _, _, _)
FoldRuns(runs, off, lo, hi, acc) ==
  IF runs = <<>> THEN acc
  ELSE LET r   == Head(runs)
           a   == IF lo > off THEN lo ELSE off
           b   == IF hi < off + r.k THEN hi ELSE off + r.k
           cnt == IF b > a THEN b - a ELSE 0
       IN  The({FoldRuns(rest, next, lo, hi, sum) :
                  rest \in {Tail(runs)}, next \in {off + r.k},
                  sum \in {IF cnt > 0 /\ Keep(r.v)
                             THEN AddRepeated(acc, SquareU64(r.v), cnt)
                             ELSE acc}})

FoldRange(d, lo, hi) == FoldRuns(d, 0, lo, hi, Zero64)

\* A task of the reduction, over the elements lo..hi-1: ready, running (a
\* worker folds it), split (its halves are tasks) or done (sum is its
\* partial sum).
Task(lo, hi) == [lo |-> lo, hi |-> hi, st |-> "ready", sum |-> Zero64]

\* rayon's split point: the producer is split at len / 2
Mid(t) == t.lo + ((t.hi - t.lo) \div 2)

\* rayon splits a task only while len / 2 >= 1 (the minimum length)
CanSplit(t) == (t.hi - t.lo) \div 2 >= 1

LeftOf(t, ts) == CHOOSE c \in ts : c.lo = t.lo /\ c.hi = Mid(t)

RightOf(t, ts) == CHOOSE c \in ts : c.lo = Mid(t) /\ c.hi = t.hi

HasChildren(t, ts) ==
  /\ \E c \in ts : c.lo = t.lo /\ c.hi = Mid(t)
  /\ \E c \in ts : c.lo = Mid(t) /\ c.hi = t.hi

RECURSIVE SumCard(_, _)
SumCard(f, S) ==
  IF S = {} THEN 0
  ELSE LET i == CHOOSE j \in S : TRUE
       IN  Cardinality({t \in f[i].nodes : t.st = "running"}) + SumCard(f, S \ {i})

\* Workers of the pool that are folding a task, of whatever request
Busy == SumCard(reqs, DOMAIN reqs)

\* ------------------------------------------------------------------------
\* main (lines 137-157)
\* ------------------------------------------------------------------------

\* std::env::var("PORT").unwrap_or_else(|_| "8080".to_string()): env::var
\* is Err both for an unset variable and for one that is not valid Unicode.
PortString(env) == IF env.kind = "unicode" THEN env.val ELSE DEFAULT_PORT

ReadPort ==
  /\ mainPc = "start"
  /\ portStr' = PortString(portEnv)
  /\ mainPc' = "env_read"
  /\ UNCHANGED <<portEnv, addr, binds, poolSize, reqs>>

\* .parse() into u16
Port(s) == ParseUnsigned(s, U16Max)

\* .parse().unwrap(), then SocketAddr::from(([0, 0, 0, 0], port))
ParsePort ==
  /\ mainPc = "env_read"
  /\ LET r == Port(portStr)
     IN  IF r.ok
           THEN /\ addr' = [ip |-> ALL_INTERFACES, port |-> ToInt(r.val)]
                /\ mainPc' = "port_parsed"
           ELSE /\ addr' = addr
                /\ mainPc' = "terminated"
  /\ UNCHANGED <<portEnv, portStr, binds, poolSize, reqs>>

\* TcpListener::bind(addr).await.unwrap(): the bind succeeds or fails as the
\* host decides; a failure panics and nothing is listening.
Bind ==
  /\ mainPc = "port_parsed"
  /\ binds' = binds + 1
  /\ \E ok \in BOOLEAN :
       mainPc' = IF ok THEN "serving" ELSE "terminated"
  /\ UNCHANGED <<portEnv, portStr, addr, poolSize, reqs>>

\* ------------------------------------------------------------------------
\* The router (lines 139-141)
\* ------------------------------------------------------------------------

\* The two routes registered with each other's handler
RouteSwapped(method, path) ==
  IF path \notin {"/", "/compute"} THEN "not_found"
  ELSE IF method \notin {"GET", "HEAD"} THEN "method_not_allowed"
  ELSE IF path = "/" THEN "compute_handler"
  ELSE "index"

\* get(handler) answers GET and HEAD and rejects other methods with 405;
\* a path without a route gets the router's fallback, 404.
Route(method, path) ==
  IF path \notin {"/", "/compute"} THEN "not_found"
  ELSE IF method \notin {"GET", "HEAD"} THEN "method_not_allowed"
  ELSE IF path = "/" THEN "index"
  ELSE "compute_handler"

\* A response body as sent: a HEAD request's body is removed.
Sent(method, status, body) ==
  [status |-> status, body |-> IF method = "HEAD" THEN <<>> ELSE body]

\* A Query<HashMap<String, String>> with "size" -> s
SizeOnly(s) == [k \in {"size"} |-> s]

\* The same with one more parameter, "other" -> "x"
WithOther(q) == [k \in DOMAIN q \cup {"other"} |-> IF k = "other" THEN <<"x">> ELSE q[k]]

\* The map of a query without parameters
NoParams == [k \in {} |-> <<>>]

\* A request arrives and is routed; `index` and the router's own answers
\* complete at once, compute_handler is entered with the query's map.
Accept(i, methods, paths, maps) ==
  /\ mainPc = "serving"
  /\ reqs[i].pc = "idle"
  /\ \E m \in methods, p \in paths, q \in maps :
       LET to == Route(m, p)
           r  == [reqs[i] EXCEPT !.method = m, !.path = p]
       IN  reqs' = [reqs EXCEPT ![i] =
             CASE to = "not_found" ->
                    [r EXCEPT !.pc = "responded", !.resp = Sent(m, 404, <<>>)]
               [] to = "method_not_allowed" ->
                    [r EXCEPT !.pc = "responded", !.resp = Sent(m, 405, <<>>)]
               [] to = "index" ->
                    [r EXCEPT !.pc = "responded", !.resp = Sent(m, 200, INDEX_HTML)]
               [] OTHER ->
                    [r EXCEPT !.pc = "accepted", !.params = q]]
  /\ UNCHANGED <<mainVars, poolSize>>

\* ------------------------------------------------------------------------
\* compute_handler (lines 103-133)
\* ------------------------------------------------------------------------

\* params.get(key)
Get(params, key) ==
  IF key \in DOMAIN params THEN [some |-> TRUE, val |-> params[key]]
  ELSE [some |-> FALSE, val |-> <<>>]

\* The same chain ending in unwrap_or_default()
SizeOrZero(params) ==
  LET g == Get(params, "size")
      r == IF g.some THEN ParseUnsigned(g.val, UsizeMax) ELSE ParseErr
  IN  IF r.ok THEN r.val ELSE <<>>

\* .get("size").and_then(|v| v.parse::<usize>().ok()).unwrap_or(10_000_000)
Size(params) ==
  LET g == Get(params, "size")
      r == IF g.some THEN ParseUnsigned(g.val, UsizeMax) ELSE ParseErr
  IN  IF r.ok THEN r.val ELSE FromInt(DEFAULT_SIZE)

ResolveSize(i) ==
  /\ reqs[i].pc = "accepted"
  /\ reqs' = [reqs EXCEPT ![i] =
       [@ EXCEPT !.pc = "parsed", !.size = Size(reqs[i].params),
                 !.log = Append(@, "parse")]]
  /\ UNCHANGED <<mainVars, poolSize>>

\* Number of elements of (0..=size), a range that includes its end
CountInclusive(size) == ToInt(size) + 1

\* Number of elements of (0..size).map(..).collect()
Count(size) == ToInt(size)

\* The Vec is allocated for exactly `size` elements and filled; a size above
\* MaxVecLen panics in the allocation and the request's task ends there.
Generate(i) ==
  /\ reqs[i].pc = "parsed"
  /\ IF BigLess(MaxVecLen, reqs[i].size)
       THEN reqs' = [reqs EXCEPT ![i] = [@ EXCEPT !.pc = "panicked"]]
       ELSE \E d \in GenArrays(Count(reqs[i].size)) :
              reqs' = [reqs EXCEPT ![i] =
                [@ EXCEPT !.pc = "generated", !.data = d,
                          !.log = Append(@, "generate")]]
  /\ UNCHANGED <<mainVars, poolSize>>

\* let start = Instant::now()
StartTimer(i) ==
  /\ reqs[i].pc = "generated"
  /\ reqs' = [reqs EXCEPT ![i] =
       [@ EXCEPT !.pc = "timing", !.log = Append(@, "timer_start")]]
  /\ UNCHANGED <<mainVars, poolSize>>

\* data.par_iter()...sum() is called: the whole array is one task of the pool
BeginReduce(i) ==
  /\ reqs[i].pc = "timing"
  /\ reqs' = [reqs EXCEPT ![i] =
       [@ EXCEPT !.pc = "reducing", !.nodes = {Task(0, Length(reqs[i].data))}]]
  /\ UNCHANGED <<mainVars, poolSize>>

\* A free worker splits a ready task at its middle into two tasks.
Split(i) ==
  /\ reqs[i].pc = "reducing"
  /\ Busy < poolSize
  /\ \E t \in reqs[i].nodes :
       /\ t.st = "ready"
       /\ CanSplit(t)
       /\ reqs[i].splits < MaxSplits
       /\ reqs' = [reqs EXCEPT ![i] =
            [@ EXCEPT !.splits = @ + 1,
                      !.nodes = (@ \ {t}) \cup {[t EXCEPT !.st = "split"],
                                                Task(t.lo, Mid(t)),
                                                Task(Mid(t), t.hi)}]]
  /\ UNCHANGED <<mainVars, poolSize>>

\* Take, were the handler itself holding one thread of the pool
TakeSpare(i) ==
  /\ reqs[i].pc = "reducing"
  /\ Busy + 1 < poolSize
  /\ \E t \in reqs[i].nodes :
       /\ t.st = "ready"
       /\ reqs' = [reqs EXCEPT ![i].nodes =
            (@ \ {t}) \cup {[t EXCEPT !.st = "running"]}]
  /\ UNCHANGED <<mainVars, poolSize>>

\* A free worker takes a ready task to fold it sequentially.
Take(i) ==
  /\ reqs[i].pc = "reducing"
  /\ Busy < poolSize
  /\ \E t \in reqs[i].nodes :
       /\ t.st = "ready"
       /\ reqs' = [reqs EXCEPT ![i].nodes =
            (@ \ {t}) \cup {[t EXCEPT !.st = "running"]}]
  /\ UNCHANGED <<mainVars, poolSize>>

\* The worker finishes its fold: the task's partial sum.
Finish(i) ==
  /\ reqs[i].pc = "reducing"
  /\ \E t \in reqs[i].nodes :
       /\ t.st = "running"
       /\ reqs' = [reqs EXCEPT ![i].nodes =
            (@ \ {t}) \cup {[t EXCEPT !.st = "done",
                               !.sum = FoldRange(reqs[i].data, t.lo, t.hi)]}]
  /\ UNCHANGED <<mainVars, poolSize>>

\* Both halves of a split task are done: their partial sums are added.
Join(i) ==
  /\ reqs[i].pc = "reducing"
  /\ \E t \in reqs[i].nodes :
       /\ t.st = "split"
       /\ HasChildren(t, reqs[i].nodes)
       /\ LET l == LeftOf(t, reqs[i].nodes)
              r == RightOf(t, reqs[i].nodes)
          IN  /\ l.st = "done"
              /\ r.st = "done"
              /\ reqs' = [reqs EXCEPT ![i].nodes =
                   (@ \ {t, l, r}) \cup {[t EXCEPT !.st = "done",
                                            !.sum = AddU64(l.sum, r.sum)]}]
  /\ UNCHANGED <<mainVars, poolSize>>

\* EndReduce, were the result kept in one place shared by all requests
EndReduceShared(i) ==
  /\ reqs[i].pc = "reducing"
  /\ \E t \in reqs[i].nodes :
       /\ t.lo = 0
       /\ t.hi = Length(reqs[i].data)
       /\ t.st = "done"
       /\ \E j \in DOMAIN reqs :
            reqs' = [reqs EXCEPT ![i] =
              [@ EXCEPT !.pc = "reduced", !.nodes = {},
                        !.sum = IF reqs[j].pc \in {"reduced", "timed", "responded"}
                                  THEN reqs[j].sum ELSE t.sum,
                        !.log = Append(@, "reduce")]]
  /\ UNCHANGED <<mainVars, poolSize>>

\* sum() returns the root task's sum to the handler
EndReduce(i) ==
  /\ reqs[i].pc = "reducing"
  /\ \E t \in reqs[i].nodes :
       /\ t.lo = 0
       /\ t.hi = Length(reqs[i].data)
       /\ t.st = "done"
       /\ reqs' = [reqs EXCEPT ![i] =
            [@ EXCEPT !.pc = "reduced", !.sum = t.sum, !.nodes = {},
                      !.log = Append(@, "reduce")]]
  /\ UNCHANGED <<mainVars, poolSize>>

\* Everything logged, whenever ev was
SinceEntry(log, ev) == log

\* What happened since the event ev was logged
RECURSIVE Since(_, _)
Since(log, ev) ==
  IF log = <<>> THEN <<>>
  ELSE IF Head(log) = ev THEN Tail(log)
  ELSE Since(Tail(log), ev)

\* let elapsed = start.elapsed(): the span since `start` was taken
StopTimer(i) ==
  /\ reqs[i].pc = "reduced"
  /\ reqs' = [reqs EXCEPT ![i] =
       [@ EXCEPT !.pc = "timed", !.elapsed = Since(reqs[i].log, "timer_start"),
                 !.log = Append(@, "timer_stop")]]
  /\ UNCHANGED <<mainVars, poolSize>>

\* format!("Processed {size} numbers\nResult: {sum}\nTime: {:.2?}", elapsed)
Format(size, sum, elapsed) ==
  <<<<"Processed">> \o Display(size) \o <<"numbers">>,
    <<"Result:">> \o Display(sum.val),
    <<"Time:">> \o elapsed>>

Respond(i) ==
  /\ reqs[i].pc = "timed"
  /\ reqs' = [reqs EXCEPT ![i] =
       [@ EXCEPT !.pc = "responded",
                 !.resp = Sent(reqs[i].method, 200,
                                Format(reqs[i].size, reqs[i].sum, reqs[i].elapsed)),
                 !.log = Append(@, "format")]]
  /\ UNCHANGED <<mainVars, poolSize>>

Handler(i) ==
  \/ ResolveSize(i)
  \/ Generate(i)
  \/ StartTimer(i)
  \/ BeginReduce(i)
  \/ EndReduce(i)
  \/ StopTimer(i)
  \/ Respond(i)

Worker(i) ==
  \/ Split(i)
  \/ Take(i)
  \/ Finish(i)
  \/ Join(i)

\* ------------------------------------------------------------------------
\* Inputs
\* ------------------------------------------------------------------------

Unset == [kind |-> "unset", val |-> <<>>]

NotUnicode == [kind |-> "not_unicode", val |-> <<>>]

Unicode(s) == [kind |-> "unicode", val |-> s]

Methods == {"GET", "HEAD", "POST"}

Paths == {"/", "/compute", "/missing"}

\* Values of the `size` parameter
RawSizes ==
  {<<"0">>, <<"2">>, <<"3">>, <<"+", "1">>, <<"0", "1">>,
   <<>>, <<"a", "b", "c">>, <<"-", "1">>, <<"2", ".", "5">>,
   Display(FromInt(1000000000)), Display(UsizeMax), Display(U64Modulus)}

Queries ==
  {NoParams, WithOther(NoParams)}
    \cup {SizeOnly(s) : s \in RawSizes}
    \cup {WithOther(SizeOnly(s)) : s \in {<<"2">>, <<"a", "b", "c">>}}

\* ------------------------------------------------------------------------
\* Specification: the server with one request
\* ------------------------------------------------------------------------

Start(envs, slots) ==
  /\ mainPc = "start"
  /\ portEnv \in envs
  /\ portStr = <<>>
  /\ addr = NoAddr
  /\ binds = 0
  /\ poolSize \in 1..MaxWorkers
  /\ reqs = [i \in slots |-> IdleReq]

Main == ReadPort \/ ParsePort \/ Bind

Init == Start({Unset}, {1})

Slots == DOMAIN reqs

Handlers ==
  \/ \E i \in Slots : ResolveSize(i)
  \/ \E i \in Slots : Generate(i)
  \/ \E i \in Slots : StartTimer(i)
  \/ \E i \in Slots : BeginReduce(i)
  \/ \E i \in Slots : EndReduce(i)
  \/ \E i \in Slots : StopTimer(i)
  \/ \E i \in Slots : Respond(i)

Workers ==
  \/ \E i \in Slots : Split(i)
  \/ \E i \in Slots : Take(i)
  \/ \E i \in Slots : Finish(i)
  \/ \E i \in Slots : Join(i)

Next ==
  \/ Main
  \/ \E i \in Slots : Accept(i, Methods, Paths, Queries)
  \/ Handlers
  \/ Workers

Spec == Init /\ [][Next]_vars

\* ------------------------------------------------------------------------
\* Specification: startup under every kind of PORT value
\* ------------------------------------------------------------------------

PortEnvs ==
  {Unset, NotUnicode}
    \cup {Unicode(p) : p \in
            {DEFAULT_PORT, <<"3", "0", "0", "0">>, <<"0">>, <<"+", "8", "0">>,
             <<"6", "5", "5", "3", "5">>, <<"6", "5", "5", "3", "6">>,
             <<"9", "9", "9", "9", "9", "9">>, <<"-", "1">>, <<>>,
             <<"a", "b", "c">>, <<"8", "0", "a">>, <<" ", "8", "0">>}}

InitStartup == Start(PortEnvs, {1})

NextStartup ==
  \/ Main
  \/ \E i \in Slots : Accept(i, Methods, {"/", "/missing"}, {NoParams})

SpecStartup == InitStartup /\ [][NextStartup]_vars

\* ------------------------------------------------------------------------
\* Specification: several compute requests in flight
\* ------------------------------------------------------------------------

\* The first slot's request has an array long enough to be split.
ConcQueries(i) ==
  IF i = 1 THEN {SizeOnly(<<"2">>), SizeOnly(Display(UsizeMax))}
  ELSE {SizeOnly(<<"1">>), SizeOnly(<<"0">>)}

InitConc == Start({Unset}, 1..MaxReqs)

NextConc ==
  \/ Main
  \/ \E i \in Slots : Accept(i, {"GET"}, {"/compute"}, ConcQueries(i))
  \/ Handlers
  \/ Workers

SpecConc == InitConc /\ [][NextConc]_vars

\* tokio polls every request's task and rayon runs every task of its pool:
\* a request whose next step stays possible takes it.
Fairness == \A i \in 1..MaxReqs : WF_vars(Handler(i) \/ Worker(i))

FairSpecConc == SpecConc /\ Fairness

\* ------------------------------------------------------------------------
\* Specification: two reductions of one array
\* ------------------------------------------------------------------------

PartitionSizes == {<<"0">>, <<"1">>, <<"2">>, <<"3">>}

\* A GET /compute request after lines 105-113, with the array d generated
GeneratedReq(q, d) ==
  [IdleReq EXCEPT !.pc = "generated", !.method = "GET", !.path = "/compute",
                  !.params = q, !.size = Size(q), !.data = d,
                  !.log = <<"parse", "generate">>]

InitPartition ==
  /\ mainPc = "serving"
  /\ portEnv = Unset
  /\ portStr = DEFAULT_PORT
  /\ addr = [ip |-> ALL_INTERFACES, port |-> ToInt(ParseUnsigned(DEFAULT_PORT, U16Max).val)]
  /\ binds = 1
  /\ poolSize \in 1..MaxWorkers
  /\ \E s \in PartitionSizes :
       \E d \in GenArrays(Count(Size(SizeOnly(s)))) :
         reqs = [i \in {1, 2} |-> GeneratedReq(SizeOnly(s), d)]

NextPartition ==
  \/ \E i \in Slots : StartTimer(i)
  \/ \E i \in Slots : BeginReduce(i)
  \/ \E i \in Slots : EndReduce(i)
  \/ Workers

SpecPartition == InitPartition /\ [][NextPartition]_vars

\* ------------------------------------------------------------------------
\* Vocabulary of the properties
\* ------------------------------------------------------------------------

\* The exact sum of x*x over the even elements lo..hi-1 of the array
RECURSIVE NaiveRuns(_, _, _, _)
NaiveRuns(runs, off, lo, hi) ==
  IF runs = <<>> THEN <<>>
  ELSE LET r   == Head(runs)
           a   == IF lo > off THEN lo ELSE off
           b   == IF hi < off + r.k THEN hi ELSE off + r.k
           cnt == IF b > a THEN b - a ELSE 0
           sq  == BigMul(FromInt(r.v), FromInt(r.v))
       IN  The({BigAdd(IF r.v % 2 = 0 THEN BigMul(FromInt(cnt), sq) ELSE <<>>,
                       NaiveRuns(rest, next, lo, hi)) :
                  rest \in {Tail(runs)}, next \in {off + r.k}})

NaiveSum(d) == NaiveRuns(d, 0, 0, Length(d))

AllOdd(d) == \A n \in 1..Len(d) : d[n].v % 2 = 1

\* A decimal numeral of a non-negative integer: digits, after an optional +
Numeral(s) == IF s # <<>> /\ Head(s) = "+" THEN Tail(s) ELSE s

IsNonNegInt(s) ==
  /\ Numeral(s) # <<>>
  /\ \A n \in 1..Len(Numeral(s)) : Numeral(s)[n] \in Digits

\* The integer a numeral denotes
RECURSIVE DigitsValue(_, _)
DigitsValue(ds, acc) ==
  IF ds = <<>> THEN acc
  ELSE The({DigitsValue(rest, v) :
              v \in {BigAdd(BigMul(acc, <<10>>), FromInt(DigitVal(Head(ds))))},
              rest \in {Tail(ds)}})

Value(s) == DigitsValue(Numeral(s), <<>>)

RECURSIVE Before(_, _)
Before(log, ev) ==
  IF log = <<>> \/ Head(log) = ev THEN <<>>
  ELSE <<Head(log)>> \o Before(Tail(log), ev)

Logged(log, ev) == \E n \in 1..Len(log) : log[n] = ev

IsPrefix(a, b) == Len(a) <= Len(b) /\ a = SubSeq(b, 1, Len(a))

HandlerSteps ==
  <<"parse", "generate", "timer_start", "reduce", "timer_stop", "format">>

\* The request of slot i went to compute_handler
InCompute(i) == reqs[i].pc \notin {"idle"} /\ reqs[i].log # <<>>

Entered(i) ==
  /\ reqs[i].path = "/compute"
  /\ reqs[i].method \in {"GET", "HEAD"}
  /\ reqs[i].pc # "idle"

Reduced(i) == reqs[i].pc \in {"reduced", "timed", "responded"}

Answered(i) == reqs[i].resp.status # 0

\* ------------------------------------------------------------------------
\* Properties
\* ------------------------------------------------------------------------

\* C1: the sum the parallel reduction returns is the naive sequential sum
\* of x*x over the even elements of the array; it is 0 for the empty array
\* and for an array of odd values only.
C1_ReductionIsNaiveSum ==
  \A i \in Slots :
    Reduced(i) =>
      /\ reqs[i].sum.val = NaiveSum(reqs[i].data)
      /\ (reqs[i].data = <<>> \/ AllOdd(reqs[i].data)) => reqs[i].sum.val = <<>>

C1_Witness ==
  \E i \in Slots :
    /\ reqs[i].pc = "reduced"
    /\ reqs[i].splits > 0
    /\ reqs[i].sum.val # <<>>
    /\ ~AllOdd(reqs[i].data)
    /\ \E n \in 1..Len(reqs[i].data) : reqs[i].data[n].v % 2 = 1

\* C2: two reductions of the same array return the same sum, however each
\* was split into tasks, whatever the size of the pool and in whatever
\* order the tasks were folded and joined.
C2_PartitionInvariance ==
  \A i, j \in Slots :
    (Reduced(i) /\ Reduced(j) /\ reqs[i].data = reqs[j].data)
      => reqs[i].sum = reqs[j].sum

C2_Witness ==
  /\ reqs[1].pc = "reduced"
  /\ reqs[2].pc = "reduced"
  /\ reqs[1].splits = 0
  /\ reqs[2].splits = MaxSplits
  /\ reqs[1].sum.val # <<>>
  /\ reqs[1].data = reqs[2].data

\* The size the size parameter stands for, when it is a numeral of at most
\* usize::MAX, and the default otherwise
Resolved(params) ==
  IF /\ "size" \in DOMAIN params
     /\ IsNonNegInt(params["size"])
     /\ BigLeq(Value(params["size"]), UsizeMax)
    THEN Value(params["size"])
    ELSE FromInt(DEFAULT_SIZE)

\* C3 (as claimed): a size parameter that is a non-negative integer resolves
\* to that integer, an absent or unparsable one to 10000000.
C3_Original ==
  \A i \in Slots :
    (Entered(i) /\ reqs[i].pc # "accepted") =>
      reqs[i].size =
        IF "size" \in DOMAIN reqs[i].params /\ IsNonNegInt(reqs[i].params["size"])
          THEN Value(reqs[i].params["size"])
          ELSE FromInt(DEFAULT_SIZE)

\* C3 (amended): a size parameter that is a non-negative integer of at most
\* usize::MAX resolves to that integer; an absent one, an unparsable one and
\* an integer above usize::MAX resolve to 10000000; no error reaches the
\* caller and the other parameters do not matter.
C3_SizeResolution ==
  \A i \in Slots :
    (Entered(i) /\ reqs[i].pc # "accepted") =>
      /\ reqs[i].size = Resolved(reqs[i].params)
      /\ reqs[i].resp.status \in {0, 200}

C3_Witness ==
  \E i \in Slots :
    /\ reqs[i].pc = "responded"
    /\ reqs[i].params = WithOther(SizeOnly(<<"a", "b", "c">>))
    /\ reqs[i].size = FromInt(DEFAULT_SIZE)
    /\ reqs[i].resp.status = 200

\* The greatest even value of the range, squared
MaxTerm == BigMul(FromInt(RANGE_END - 2), FromInt(RANGE_END - 2))

\* C4: a compute response is three lines: the resolved size n as the count
\* of processed numbers, a sum between 0 and n * 9998^2, and the elapsed
\* time; the array had exactly n elements; for n = 0 count and sum are 0.
C4_ResponseShape ==
  \A i \in Slots :
    (Entered(i) /\ reqs[i].pc = "responded") =>
      /\ reqs[i].resp.status = 200
      /\ BigLeq(reqs[i].sum.val, BigMul(reqs[i].size, MaxTerm))
      /\ FromInt(Length(reqs[i].data)) = reqs[i].size
      /\ reqs[i].method = "GET" =>
           /\ Len(reqs[i].resp.body) = 3
           /\ reqs[i].resp.body[1]
                = <<"Processed">> \o Display(reqs[i].size) \o <<"numbers">>
           /\ reqs[i].resp.body[2] = <<"Result:">> \o Display(reqs[i].sum.val)
           /\ Head(reqs[i].resp.body[3]) = "Time:"
           /\ reqs[i].size = <<>> =>
                /\ reqs[i].resp.body[1] = <<"Processed", "0", "numbers">>
                /\ reqs[i].resp.body[2] = <<"Result:", "0">>

C4_Witness ==
  \E i \in Slots :
    /\ reqs[i].pc = "responded"
    /\ reqs[i].method = "GET"
    /\ reqs[i].size = <<3>>
    /\ reqs[i].resp.body[1] = <<"Processed", "3", "numbers">>
    /\ reqs[i].sum.val = BigAdd(MaxTerm, MaxTerm)

\* C5: every generated value is in 0..9999; every term of the sum is v*v
\* for an even v, exact in 64 bits; no term, partial sum or final sum of an
\* array of up to 10^9 elements wraps modulo 2^64.
C5_NoOverflow ==
  \A i \in Slots :
    /\ \A n \in 1..Len(reqs[i].data) :
         /\ reqs[i].data[n].v >= 0
         /\ reqs[i].data[n].v < RANGE_END
         /\ SquareU64(reqs[i].data[n].v)
              = U64(FromInt(reqs[i].data[n].v * reqs[i].data[n].v))
    /\ Length(reqs[i].data) <= 10 ^ 9 =>
         /\ \A t \in reqs[i].nodes :
              t.st = "done" =>
                /\ ~t.sum.wrapped
                /\ t.sum.val = NaiveRuns(reqs[i].data, 0, t.lo, t.hi)
         /\ Reduced(i) =>
              /\ ~reqs[i].sum.wrapped
              /\ reqs[i].sum.val = NaiveSum(reqs[i].data)

C5_Witness ==
  \E i \in Slots :
    /\ reqs[i].pc = "responded"
    /\ Length(reqs[i].data) = 10 ^ 9
    /\ reqs[i].sum = U64(BigMul(FromInt(10 ^ 9), MaxTerm))

\* C6 (as claimed): the timer is started after the size is parsed and before
\* the values are generated, and stopped after the reduction and before the
\* response is formatted, so that it spans generation and reduction.
C6_Original ==
  \A i \in Slots :
    /\ Logged(reqs[i].log, "timer_start") =>
         Before(reqs[i].log, "timer_start") = <<"parse">>
    /\ Logged(reqs[i].log, "timer_stop") =>
         reqs[i].elapsed = <<"generate", "reduce">>
    /\ Logged(reqs[i].log, "format") =>
         Logged(Before(reqs[i].log, "format"), "timer_stop")

\* C6 (amended): the timer is started after the size is parsed and after the
\* values are generated, before the parallel reduction begins; it is
\* stopped after the reduction and before the response is formatted, so
\* that it spans the reduction alone.
C6_TimerWindow ==
  \A i \in Slots :
    /\ Logged(reqs[i].log, "timer_start") =>
         Before(reqs[i].log, "timer_start") = <<"parse", "generate">>
    /\ reqs[i].nodes # {} => Logged(reqs[i].log, "timer_start")
    /\ Logged(reqs[i].log, "timer_stop") =>
         /\ Before(reqs[i].log, "timer_stop")
              = <<"parse", "generate", "timer_start", "reduce">>
         /\ reqs[i].elapsed = <<"reduce">>
    /\ Logged(reqs[i].log, "format") =>
         Logged(Before(reqs[i].log, "format"), "timer_stop")

C6_Witness ==
  \E i \in Slots :
    /\ reqs[i].pc = "timed"
    /\ reqs[i].elapsed = <<"reduce">>
    /\ reqs[i].splits > 0

\* C7 (as claimed): every response the server produces has status 200.
C7_Original ==
  \A i \in Slots : Answered(i) => reqs[i].resp.status = 200

\* C7 (amended): every response to a GET or HEAD request for / or /compute
\* has status 200, whatever the query; a compute request never ends in a
\* 4xx or 5xx; the root route returns the fixed document and computes
\* nothing; another method on these paths is answered 405 and another path
\* 404.
C7_Statuses ==
  \A i \in Slots :
    reqs[i].pc # "idle" =>
      /\ reqs[i].path \notin {"/", "/compute"} => reqs[i].resp.status = 404
      /\ (reqs[i].path \in {"/", "/compute"} /\ reqs[i].method \notin {"GET", "HEAD"})
           => reqs[i].resp.status = 405
      /\ (reqs[i].path = "/compute" /\ reqs[i].method \in {"GET", "HEAD"}) =>
           /\ reqs[i].resp.status \in {0, 200}
           /\ reqs[i].pc = "responded" => reqs[i].resp.status = 200
      /\ (reqs[i].path = "/" /\ reqs[i].method \in {"GET", "HEAD"}) =>
           /\ reqs[i].resp.status = 200
           /\ reqs[i].log = <<>> /\ reqs[i].data = <<>> /\ reqs[i].nodes = {}
           /\ reqs[i].method = "GET" => reqs[i].resp.body = INDEX_HTML

C7_Witness ==
  \E i \in Slots :
    /\ reqs[i].path = "/compute"
    /\ reqs[i].method = "GET"
    /\ reqs[i].params = SizeOnly(<<"2", ".", "5">>)
    /\ reqs[i].resp.status = 200

\* PORT holds the numeral of a 16-bit unsigned integer
ValidPort(env) ==
  /\ env.kind = "unicode"
  /\ IsNonNegInt(env.val)
  /\ BigLeq(Value(env.val), U16Max)

NothingServed == \A i \in Slots : reqs[i].pc = "idle"

\* C8 (as claimed): without PORT the server listens on 8080; with a PORT
\* that is not a valid u16, or when the bind fails, the process terminates
\* before serving a request and binds at most once; with a valid PORT it
\* binds all interfaces on that port.
C8_Original ==
  /\ (mainPc = "serving" /\ portEnv.kind = "unset") =>
       addr = [ip |-> ALL_INTERFACES, port |-> ToInt(Value(DEFAULT_PORT))]
  /\ (portEnv.kind # "unset" /\ ~ValidPort(portEnv)) =>
       /\ mainPc \notin {"port_parsed", "serving"}
       /\ binds = 0
  /\ (mainPc = "serving" /\ ValidPort(portEnv)) =>
       addr = [ip |-> ALL_INTERFACES, port |-> ToInt(Value(portEnv.val))]
  /\ binds <= 1
  /\ mainPc # "serving" => NothingServed
  /\ mainPc = "terminated" => ~ENABLED NextStartup

\* The case C8 fails on: PORT is set to a value that is not valid Unicode
\* and the server is listening on the default port.
C8_Witness ==
  /\ mainPc = "serving"
  /\ portEnv = NotUnicode
  /\ binds = 1
  /\ addr = [ip |-> ALL_INTERFACES, port |-> 8080]

\* What slot i reports is computed from its own parameters and array
Own(i) ==
  /\ reqs[i].pc \notin {"idle", "accepted"} => reqs[i].size = Resolved(reqs[i].params)
  /\ reqs[i].pc \notin {"idle", "accepted", "parsed", "panicked"} =>
       FromInt(Length(reqs[i].data)) = reqs[i].size
  /\ \A t \in reqs[i].nodes :
       /\ 0 <= t.lo /\ t.lo <= t.hi /\ t.hi <= Length(reqs[i].data)
       /\ t.st = "done" => t.sum.val = NaiveRuns(reqs[i].data, 0, t.lo, t.hi)
  /\ Reduced(i) => reqs[i].sum.val = NaiveSum(reqs[i].data)
  /\ reqs[i].pc = "responded" =>
       reqs[i].resp = Sent(reqs[i].method, 200,
                           <<<<"Processed">> \o Display(Resolved(reqs[i].params))
                               \o <<"numbers">>,
                             <<"Result:">> \o Display(NaiveSum(reqs[i].data)),
                             <<"Time:", "reduce">>>>)

\* C9: with several compute requests in flight, a step changes the state of
\* one request only, and what a request holds and reports (size, array,
\* partial sums, sum, count) is that of its own parameters and array.
C9_Isolation ==
  /\ [][\A i \in Slots : \A j \in Slots \ {i} :
          reqs'[j] # reqs[j] => reqs'[i] = reqs[i]]_vars
  /\ [](\A i \in Slots : Own(i))

C9_Witness ==
  /\ reqs[1].pc = "responded"
  /\ reqs[2].pc = "responded"
  /\ reqs[1].data # reqs[2].data
  /\ reqs[1].sum # reqs[2].sum
  /\ reqs[2].sum.val # <<>>

\* The steps of compute_handler are taken in order, each at most once
InOrder == \A i \in Slots : IsPrefix(reqs[i].log, HandlerSteps)

\* C10 (as claimed): under fair scheduling every accepted compute request
\* eventually receives its response.
C10_Original ==
  \A i \in 1..MaxReqs :
    (reqs[i].pc = "accepted") ~> (reqs[i].pc = "responded")

\* C10 (amended): under fair scheduling every accepted compute request
\* whose resolved size is at most MaxVecLen eventually receives its
\* response, after parse, generate, reduce and format in that order, each
\* once, however many other requests share the pool.
C10_EveryRequestCompletes ==
  /\ []InOrder
  /\ \A i \in 1..MaxReqs :
       (reqs[i].pc = "accepted" /\ BigLeq(Resolved(reqs[i].params), MaxVecLen))
         ~> (reqs[i].pc = "responded" /\ reqs[i].log = HandlerSteps)

C10_Witness ==
  /\ reqs[2].pc = "responded"
  /\ reqs[2].log = HandlerSteps
  /\ reqs[1].pc = "reducing"
  /\ reqs[1].splits > 0

====
